---------------------------- MODULE Spec2Model ----------------------------
(***************************************************************************)
(* Model of homework.py: the fitness tracker's training classes            *)
(* (Training, Running, SportsWalking, Swimming), the InfoMessage           *)
(* formatter, the read_package dispatcher and the __main__ driver loop.    *)
(*                                                                         *)
(* Numbers.  The program computes with Python ints and floats.  The model  *)
(* computes as Python does: every arithmetic result is rounded to the      *)
(* nearest IEEE 754 binary64 value, ties to even, and the format spec      *)
(* ".3f" rounds the exact binary value of the float.  Mantissas are        *)
(* arbitrary-precision naturals (TLC's own integers are 32 bits wide).     *)
(* Inputs are non-negative; the program has no subtraction.                *)
(*                                                                         *)
(* Text.  A Python str that is printed is modelled as the sequence of its  *)
(* Unicode code points, so the template's literal text is the program's.   *)
(***************************************************************************)
EXTENDS Integers, Sequences, FiniteSets, TLC

VARIABLES
    pc,        \* control location: "client" (API calls), or the driver's position
    packages,  \* the driver's list of (workout_type, data) pairs
    idx,       \* 1-based position of the driver loop in packages
    args,      \* arguments of the last read_package call, or NoArgs
    training,  \* the Training object held by the caller, or None
    results,   \* client: outcome of the last call of each Training method
    info,      \* the InfoMessage returned by show_training_info, or None
    message,   \* the str returned by get_message, or None
    stdout,    \* the lines printed so far
    exc,       \* the exception propagating out of the program, "" when none
    constructed \* number of Training objects constructed so far

vars == <<pc, packages, idx, args, training, results, info, message, stdout,
          exc, constructed>>

---------------------------------------------------------------------------
(* Arbitrary-precision naturals: little-endian sequences of limbs in       *)
(* 0 .. Base-1 without a most significant zero limb; <<>> is zero.         *)

LimbBits == 10

Base == 2 ^ LimbBits

RECURSIVE BigOf(_)
BigOf(n) == IF n = 0 THEN <<>> ELSE <<n % Base>> \o BigOf(n \div Base)

RECURSIVE Trim(_)
Trim(a) ==
    IF a = <<>> THEN a
    ELSE IF a[Len(a)] = 0 THEN Trim(SubSeq(a, 1, Len(a) - 1)) ELSE a

RECURSIVE AddC(_, _, _)
AddC(a, b, c) ==
    IF a = <<>> /\ b = <<>> THEN (IF c = 0 THEN <<>> ELSE <<c>>)
    ELSE LET x0 == IF a = <<>> THEN 0 ELSE Head(a)
             y0 == IF b = <<>> THEN 0 ELSE Head(b)
             s  == x0 + y0 + c
         IN  <<s % Base>> \o AddC(IF a = <<>> THEN a ELSE Tail(a),
                                  IF b = <<>> THEN b ELSE Tail(b),
                                  s \div Base)

Add(a, b) == AddC(a, b, 0)

RECURSIVE MulSmallC(_, _, _)
MulSmallC(a, k, c) ==
    IF a = <<>> THEN (IF c = 0 THEN <<>> ELSE <<c>>)
    ELSE LET p == Head(a) * k + c
         IN  <<p % Base>> \o MulSmallC(Tail(a), k, p \div Base)

\* a * k for 0 <= k < Base
MulSmall(a, k) == IF k = 0 THEN <<>> ELSE MulSmallC(a, k, 0)

ShiftLimb(a) == IF a = <<>> THEN a ELSE <<0>> \o a

RECURSIVE Mul(_, _)
Mul(a, b) ==
    IF a = <<>> \/ b = <<>> THEN <<>>
    ELSE Add(MulSmall(a, Head(b)), ShiftLimb(Mul(a, Tail(b))))

RECURSIVE LeqFrom(_, _, _)
LeqFrom(a, b, i) ==
    IF i = 0 THEN TRUE
    ELSE IF a[i] # b[i] THEN a[i] < b[i]
    ELSE LeqFrom(a, b, i - 1)

Leq(a, b) ==
    IF Len(a) # Len(b) THEN Len(a) < Len(b) ELSE LeqFrom(a, b, Len(a))

RECURSIVE SubB(_, _, _)
SubB(a, b, w) ==
    IF a = <<>> THEN <<>>
    ELSE LET y0 == (IF b = <<>> THEN 0 ELSE Head(b)) + w
             d  == IF Head(a) >= y0 THEN Head(a) - y0 ELSE Head(a) + Base - y0
         IN  <<d>> \o SubB(Tail(a), IF b = <<>> THEN b ELSE Tail(b),
                           IF Head(a) >= y0 THEN 0 ELSE 1)

\* a - b for a >= b
Sub(a, b) == Trim(SubB(a, b, 0))

Limb(a, i) == IF i >= 1 /\ i <= Len(a) THEN a[i] ELSE 0

RECURSIVE QSearch(_, _, _, _)
QSearch(r, b, lo, hi) ==
    IF lo >= hi THEN lo
    ELSE LET mid == (lo + hi + 1) \div 2
         IN  IF Leq(MulSmall(b, mid), r) THEN QSearch(r, b, mid, hi)
             ELSE QSearch(r, b, lo, mid - 1)

\* the largest k with k*b <= r, for 0 <= r < Base*b and b # 0: the leading
\* limbs of r and b bracket k, a search between the brackets finds it
QLimb(r, b) ==
    IF ~Leq(b, r) THEN 0
    ELSE LET n  == Len(b)
             b2 == Limb(b, n) * Base + Limb(b, n - 1)
             r3 == (Limb(r, n + 1) * Base + Limb(r, n)) * Base + Limb(r, n - 1)
             hi == IF r3 \div b2 > Base - 1 THEN Base - 1 ELSE r3 \div b2
             lo == IF n = 1 THEN hi ELSE r3 \div (b2 + 1)
         IN  QSearch(r, b, lo, hi)

RECURSIVE DivModFrom(_, _, _, _, _)
DivModFrom(a, b, i, q, r) ==
    IF i = 0 THEN [quot |-> Trim(q), rem |-> r]
    ELSE LET r1 == Trim(<<a[i]>> \o r)
             k  == QLimb(r1, b)
         IN  DivModFrom(a, b, i - 1, <<k>> \o q, Sub(r1, MulSmall(b, k)))

\* floor division and remainder, b # 0
DivMod(a, b) == DivModFrom(a, b, Len(a), <<>>, <<>>)

RECURSIVE DivSmallFrom(_, _, _, _, _)
DivSmallFrom(a, k, i, q, r) ==
    IF i = 0 THEN [quot |-> Trim(q), rem |-> r]
    ELSE LET x == r * Base + a[i]
         IN  DivSmallFrom(a, k, i - 1, <<x \div k>> \o q, x % k)

\* floor division and remainder by 0 < k < Base
DivSmall(a, k) == DivSmallFrom(a, k, Len(a), <<>>, 0)

RECURSIVE BitLenLimb(_)
BitLenLimb(x) == IF x = 0 THEN 0 ELSE 1 + BitLenLimb(x \div 2)

\* the number of binary digits of a
BitLen(a) ==
    IF a = <<>> THEN 0 ELSE LimbBits * (Len(a) - 1) + BitLenLimb(a[Len(a)])

RECURSIVE ZeroLimbs(_)
ZeroLimbs(n) == IF n = 0 THEN <<>> ELSE <<0>> \o ZeroLimbs(n - 1)

\* a * 2^t
ShiftLeft(a, t) ==
    IF a = <<>> THEN a
    ELSE ZeroLimbs(t \div LimbBits) \o MulSmall(a, 2 ^ (t % LimbBits))

\* floor(a / 2^t)
ShiftRight(a, t) ==
    IF t \div LimbBits >= Len(a) THEN <<>>
    ELSE DivSmall(SubSeq(a, 1 + (t \div LimbBits), Len(a)),
                  2 ^ (t % LimbBits)).quot

RECURSIVE TrailingZerosLimb(_)
TrailingZerosLimb(x) == IF x % 2 = 1 THEN 0 ELSE 1 + TrailingZerosLimb(x \div 2)

\* the number of trailing zero binary digits of a # 0
RECURSIVE TrailingZeros(_)
TrailingZeros(a) ==
    IF Head(a) = 0 THEN LimbBits + TrailingZeros(Tail(a))
    ELSE TrailingZerosLimb(Head(a))

---------------------------------------------------------------------------
(* Python floats: IEEE 754 binary64 with round-to-nearest-even.  A value   *)
(* [err |-> "", m, e] is the number m * 2^e with m of at most 53 binary    *)
(* digits, odd unless it is zero; a record whose err is not "" stands for  *)
(* the exception the expression raised instead of producing a value.  The  *)
(* program's ints are far below 2^53, so an int and the float of the same  *)
(* value behave alike in every operation the program applies.  Numbers are *)
(* non-negative (the program never subtracts) and stay in the normal       *)
(* range: no overflow, no subnormals.                                      *)

MANT_DIG == 53

Raised(e) == [err |-> e, m |-> <<>>, e |-> 0]

\* the float m * 2^e for m of at most MANT_DIG digits
Float(m, e) ==
    IF m = <<>> THEN [err |-> "", m |-> m, e |-> 0]
    ELSE LET z == TrailingZeros(m)
         IN  [err |-> "", m |-> ShiftRight(m, z), e |-> e + z]

\* the float nearest to (m + f) * 2^e, where 0 <= f < 1 and sticky says
\* whether f > 0; ties go to the even mantissa.  With sticky, m has more
\* than MANT_DIG + 1 digits.
RoundToFloat(m, e, sticky) ==
    IF BitLen(m) <= MANT_DIG THEN Float(m, e)
    ELSE LET t    == BitLen(m) - MANT_DIG
             q    == ShiftRight(m, t)
             r    == Sub(m, ShiftLeft(q, t))
             half == ShiftLeft(<<1>>, t - 1)
             up   == IF r = half THEN sticky \/ Head(q) % 2 = 1
                     ELSE Leq(half, r)
         IN  Float(IF up THEN Add(q, <<1>>) ELSE q, e + t)

\* an int of the program
Num(n) == Float(BigOf(n), 0)

PyMul(a, b) ==
    IF a.err # "" THEN a
    ELSE IF b.err # "" THEN b
    ELSE RoundToFloat(Mul(a.m, b.m), a.e + b.e, FALSE)

PyAdd(a, b) ==
    IF a.err # "" THEN a
    ELSE IF b.err # "" THEN b
    ELSE LET e == IF a.e < b.e THEN a.e ELSE b.e
         IN  RoundToFloat(Add(ShiftLeft(a.m, a.e - e), ShiftLeft(b.m, b.e - e)),
                          e, FALSE)

\* true division: a zero divisor raises ZeroDivisionError (ints and floats)
PyTrueDiv(a, b) ==
    IF a.err # "" THEN a
    ELSE IF b.err # "" THEN b
    ELSE IF b.m = <<>> THEN Raised("ZeroDivisionError")
    ELSE IF a.m = <<>> THEN a
    ELSE LET d  == MANT_DIG + 2 + BitLen(b.m) - BitLen(a.m)
             s  == IF d > 0 THEN d ELSE 0
             dm == DivMod(ShiftLeft(a.m, s), b.m)
         IN  RoundToFloat(dm.quot, a.e - b.e - s, dm.rem # <<>>)

\* x ** 2, taken as the correctly rounded square
PySquare(a) == PyMul(a, a)

\* a float literal of the program: the float nearest to n / 10^places
Literal(n, places) == PyTrueDiv(Num(n), Num(10 ^ places))

---------------------------------------------------------------------------
(* Text: sequences of Unicode code points.                                 *)

\* decimal digits of a natural, most significant first
RECURSIVE Decimal(_)
Decimal(a) ==
    IF a = <<>> THEN <<>>
    ELSE LET dm == DivSmall(a, 10) IN Decimal(dm.quot) \o <<48 + dm.rem>>

\* the thousandths a float rounds to under the format spec ".3f": the
\* exact binary value decides, ties go to the even digit
RoundTo3(v) ==
    LET x == MulSmall(v.m, 1000)
    IN  IF v.e >= 0 THEN ShiftLeft(x, v.e)
        ELSE LET t    == 0 - v.e
                 q    == ShiftRight(x, t)
                 r    == Sub(x, ShiftLeft(q, t))
                 half == ShiftLeft(<<1>>, t - 1)
                 up   == IF r = half THEN Limb(q, 1) % 2 = 1 ELSE Leq(half, r)
             IN  IF up THEN Add(q, <<1>>) ELSE q

RECURSIVE ZeroPadded(_, _)
ZeroPadded(digits, n) ==
    IF Len(digits) >= n THEN digits ELSE ZeroPadded(<<48>> \o digits, n)

\* the text of m thousandths in fixed notation with three decimals
Fixed3(m) ==
    LET digits == ZeroPadded(Decimal(m), 4)
    IN  SubSeq(digits, 1, Len(digits) - 3) \o <<46>>
            \o SubSeq(digits, Len(digits) - 2, Len(digits))

\* str() of the strings the program formats: the class names
StrText(s) ==
    CASE s = "Running"       -> <<82, 117, 110, 110, 105, 110, 103>>
      [] s = "SportsWalking" -> <<83, 112, 111, 114, 116, 115, 87, 97, 108,
                                  107, 105, 110, 103>>
      [] s = "Swimming"      -> <<83, 119, 105, 109, 109, 105, 110, 103>>
      [] OTHER               -> <<84, 114, 97, 105, 110, 105, 110, 103>>

---------------------------------------------------------------------------
(* Objects: records with a cls field.                                      *)

None == [cls |-> "NoneType"]

Str(text) == [cls |-> "str", text |-> text]

\* self.name = value
SetAttr(self, name, value) ==
    [k \in DOMAIN self \cup {name} |-> IF k = name THEN value ELSE self[k]]

---------------------------------------------------------------------------
(* class InfoMessage                                                       *)

Lit(text) == [lit |-> text, field |-> "", spec |-> ""]

Field(name, spec) == [lit |-> <<>>, field |-> name, spec |-> spec]

\* MESSAGE_TEMPLATE with the speed placed before the distance
MESSAGE_TEMPLATE_SpeedBeforeDistance ==
    << Lit(<<1058, 1080, 1087, 32, 1090, 1088, 1077, 1085, 1080, 1088, 1086,
             1074, 1082, 1080, 58, 32>>),
       Field("training_type", ""),
       Lit(<<59, 32, 1044, 1083, 1080, 1090, 1077, 1083, 1100, 1085, 1086,
             1089, 1090, 1100, 58, 32>>),
       Field("duration", ".3f"),
       Lit(<<32, 1095, 46, 59, 32, 1044, 1080, 1089, 1090, 1072, 1085, 1094,
             1080, 1103, 58, 32>>),
       Field("speed", ".3f"),
       Lit(<<32, 1082, 1084, 59, 32, 1057, 1088, 46, 32, 1089, 1082, 1086,
             1088, 1086, 1089, 1090, 1100, 58, 32>>),
       Field("distance", ".3f"),
       Lit(<<32, 1082, 1084, 47, 1095, 59, 32, 1055, 1086, 1090, 1088, 1072,
             1095, 1077, 1085, 1086, 32, 1082, 1082, 1072, 1083, 58, 32>>),
       Field("calories", ".3f"),
       Lit(<<46>>) >>

MESSAGE_TEMPLATE ==
    << Lit(<<1058, 1080, 1087, 32, 1090, 1088, 1077, 1085, 1080, 1088, 1086,
             1074, 1082, 1080, 58, 32>>),
       Field("training_type", ""),
       Lit(<<59, 32, 1044, 1083, 1080, 1090, 1077, 1083, 1100, 1085, 1086,
             1089, 1090, 1100, 58, 32>>),
       Field("duration", ".3f"),
       Lit(<<32, 1095, 46, 59, 32, 1044, 1080, 1089, 1090, 1072, 1085, 1094,
             1080, 1103, 58, 32>>),
       Field("distance", ".3f"),
       Lit(<<32, 1082, 1084, 59, 32, 1057, 1088, 46, 32, 1089, 1082, 1086,
             1088, 1086, 1089, 1090, 1100, 58, 32>>),
       Field("speed", ".3f"),
       Lit(<<32, 1082, 1084, 47, 1095, 59, 32, 1055, 1086, 1090, 1088, 1072,
             1095, 1077, 1085, 1086, 32, 1082, 1082, 1072, 1083, 58, 32>>),
       Field("calories", ".3f"),
       Lit(<<46>>) >>

\* dataclasses.asdict: the fields of the dataclass by name
asdict(self) == [k \in DOMAIN self \ {"cls"} |-> self[k]]

\* str.format(**data)
RECURSIVE Format(_, _)
Format(template, data) ==
    IF template = <<>> THEN <<>>
    ELSE LET seg   == Head(template)
             piece == IF seg.field = "" THEN seg.lit
                      ELSE IF seg.spec = ".3f"
                           THEN Fixed3(RoundTo3(data[seg.field]))
                      ELSE StrText(data[seg.field])
         IN  piece \o Format(Tail(template), data)

get_message(self) ==
    LET message_data == asdict(self)
    IN  Str(Format(MESSAGE_TEMPLATE, message_data))

InfoMessage(training_type, duration, distance, speed, calories) ==
    [cls |-> "InfoMessage", training_type |-> training_type,
     duration |-> duration, distance |-> distance, speed |-> speed,
     calories |-> calories]

---------------------------------------------------------------------------
(* class Training and its subclasses                                       *)

M_IN_KM == 1000
MINUTES_IN_HOUR == 60
CALORIES_MEAN_SPEED_MULTIPLIER == 18
CENTIMETERS_IN_METER == 100
SWIMMING_COEFFICIENT == 2

Training_LEN_STEP == Literal(65, 2)
Swimming_LEN_STEP == Literal(138, 2)

\* class attribute lookup: Swimming overrides Training.LEN_STEP
LEN_STEP(cls) == IF cls = "Swimming" THEN Swimming_LEN_STEP ELSE Training_LEN_STEP

Running_CALORIES_MEAN_SPEED_SHIFT == Literal(179, 2)
Swimming_CALORIES_MEAN_SPEED_SHIFT == Literal(11, 1)

\* class attribute lookup: each of the two classes defines its own
CALORIES_MEAN_SPEED_SHIFT(cls) ==
    IF cls = "Swimming" THEN Swimming_CALORIES_MEAN_SPEED_SHIFT
    ELSE Running_CALORIES_MEAN_SPEED_SHIFT

RUNNING_CALORIE_RATIO_SPEED == Literal(35, 3)
RUNNING_CALORIE_RATIO_WEIGHT == Literal(29, 3)
CONVERT_TO_MS == Literal(278, 3)

Training__init__(self, action, duration, weight) ==
    SetAttr(SetAttr(SetAttr(self, "action", action), "duration", duration),
            "weight", weight)

SportsWalking__init__(self, action, duration, weight, height) ==
    SetAttr(Training__init__(self, action, duration, weight), "height", height)

\* Swimming.__init__ storing its last two arguments in each other's field
Swimming__init__PoolSwapped(self, action, duration, weight, length_pool, count_pool) ==
    LET s0 == Training__init__(self, action, duration, weight)
        s4 == SetAttr(s0, "length_pool", count_pool)
    IN  SetAttr(s4, "count_pool", length_pool)

Swimming__init__(self, action, duration, weight, length_pool, count_pool) ==
    LET s0 == Training__init__(self, action, duration, weight)
        s1 == SetAttr(s0, "action", action)
        s2 == SetAttr(s1, "duration", duration)
        s3 == SetAttr(s2, "weight", weight)
        s4 == SetAttr(s3, "length_pool", length_pool)
    IN  SetAttr(s4, "count_pool", count_pool)

\* the positional parameters of cls.__init__ after self
InitParams(cls) ==
    CASE cls = "SportsWalking" -> <<"action", "duration", "weight", "height">>
      [] cls = "Swimming"      -> <<"action", "duration", "weight",
                                    "length_pool", "count_pool">>
      [] OTHER                 -> <<"action", "duration", "weight">>

\* cls(*data): binding the arguments raises TypeError when their number is
\* not that of the parameters; otherwise __init__ runs on a new object
New(cls, data) ==
    IF Len(data) # Len(InitParams(cls))
    THEN [exc |-> "TypeError", val |-> None, constructed |-> 0]
    ELSE LET self == [cls |-> cls]
             obj  == CASE cls = "SportsWalking" ->
                            SportsWalking__init__(self, data[1], data[2],
                                                  data[3], data[4])
                       [] cls = "Swimming" ->
                            Swimming__init__(self, data[1], data[2], data[3],
                                             data[4], data[5])
                       [] OTHER ->
                            Training__init__(self, data[1], data[2], data[3])
         IN  [exc |-> "", val |-> obj, constructed |-> 1]

Training_get_distance(self) ==
    PyTrueDiv(PyMul(Num(self.action), LEN_STEP(self.cls)), Num(M_IN_KM))

Swimming_get_distance(self) ==
    PyTrueDiv(PyMul(Num(self.action), LEN_STEP(self.cls)), Num(M_IN_KM))

get_distance(self) ==
    IF self.cls = "Swimming" THEN Swimming_get_distance(self)
    ELSE Training_get_distance(self)

\* get_mean_speed multiplying by the duration instead of dividing by it
Training_get_mean_speed_Times(self) ==
    PyMul(get_distance(self), Num(self.duration))

\* get_mean_speed returning 0 for a zero duration instead of dividing
Training_get_mean_speed_GuardsZero(self) ==
    IF self.duration = 0 THEN Num(0)
    ELSE PyTrueDiv(get_distance(self), Num(self.duration))

Training_get_mean_speed(self) ==
    PyTrueDiv(get_distance(self), Num(self.duration))

\* Swimming without its own get_mean_speed: the inherited distance/duration
Swimming_get_mean_speed_Inherited(self) ==
    PyTrueDiv(get_distance(self), Num(self.duration))

Swimming_get_mean_speed(self) ==
    PyTrueDiv(PyTrueDiv(PyMul(Num(self.length_pool), Num(self.count_pool)),
                        Num(M_IN_KM)),
              Num(self.duration))

get_mean_speed(self) ==
    IF self.cls = "Swimming" THEN Swimming_get_mean_speed(self)
    ELSE Training_get_mean_speed(self)

Training_get_spent_calories(self) == Raised("NotImplementedError")

\* Running.get_spent_calories without CALORIES_MEAN_SPEED_SHIFT
Running_get_spent_calories_NoShift(self) ==
    PyMul(PyTrueDiv(PyMul(PyMul(Num(CALORIES_MEAN_SPEED_MULTIPLIER),
                                get_mean_speed(self)),
                          Num(self.weight)),
                    Num(M_IN_KM)),
          PyMul(Num(self.duration), Num(MINUTES_IN_HOUR)))

Running_get_spent_calories(self) ==
    PyMul(PyTrueDiv(PyMul(PyAdd(PyMul(Num(CALORIES_MEAN_SPEED_MULTIPLIER),
                                      get_mean_speed(self)),
                                CALORIES_MEAN_SPEED_SHIFT(self.cls)),
                          Num(self.weight)),
                    Num(M_IN_KM)),
          PyMul(Num(self.duration), Num(MINUTES_IN_HOUR)))

SportsWalking_get_spent_calories(self) ==
    PyMul(PyAdd(PyMul(RUNNING_CALORIE_RATIO_SPEED, Num(self.weight)),
                PyMul(PyMul(PyTrueDiv(PySquare(PyMul(get_mean_speed(self),
                                                     CONVERT_TO_MS)),
                                      PyTrueDiv(Num(self.height),
                                                Num(CENTIMETERS_IN_METER))),
                            RUNNING_CALORIE_RATIO_WEIGHT),
                      Num(self.weight))),
          PyMul(Num(self.duration), Num(MINUTES_IN_HOUR)))

Swimming_get_spent_calories(self) ==
    PyMul(PyMul(PyMul(PyAdd(get_mean_speed(self),
                            CALORIES_MEAN_SPEED_SHIFT(self.cls)),
                      Num(SWIMMING_COEFFICIENT)),
                Num(self.weight)),
          Num(self.duration))

get_spent_calories(self) ==
    CASE self.cls = "Running"       -> Running_get_spent_calories(self)
      [] self.cls = "SportsWalking" -> SportsWalking_get_spent_calories(self)
      [] self.cls = "Swimming"      -> Swimming_get_spent_calories(self)
      [] OTHER                      -> Training_get_spent_calories(self)

\* InfoMessage(...) with its keyword arguments evaluated in order: the first
\* exception propagates, otherwise the InfoMessage is built
InfoMessageOf(training_type, duration, distance, speed, calories) ==
    IF distance.err # "" THEN [err |-> distance.err, val |-> None]
    ELSE IF speed.err # "" THEN [err |-> speed.err, val |-> None]
    ELSE IF calories.err # "" THEN [err |-> calories.err, val |-> None]
    ELSE [err |-> "",
          val |-> InfoMessage(training_type, duration, distance, speed,
                              calories)]

show_training_info(self) ==
    InfoMessageOf(self.cls, Num(self.duration), get_distance(self),
                  get_mean_speed(self), get_spent_calories(self))

---------------------------------------------------------------------------
(* module level                                                            *)

TRAINING_CLASSES ==
    [SWM |-> "Swimming", RUN |-> "Running", WLK |-> "SportsWalking"]

\* read_package falling back to Running for a code it does not know
read_package_DefaultsToRunning(workout_type, data) ==
    IF workout_type \notin DOMAIN TRAINING_CLASSES
    THEN New("Running", data)
    ELSE New(TRAINING_CLASSES[workout_type], data)

read_package(workout_type, data) ==
    IF workout_type \notin DOMAIN TRAINING_CLASSES
    THEN [exc |-> "ValueError", val |-> None, constructed |-> 0]
    ELSE New(TRAINING_CLASSES[workout_type], data)

PACKAGES ==
    << <<"SWM", <<720, 1, 80, 25, 40>>>>,
       <<"RUN", <<15000, 1, 75>>>>,
       <<"WLK", <<9000, 1, 75, 180>>>> >>

---------------------------------------------------------------------------
(* Inputs                                                                  *)

MaxArgs == 6
MaxDuration == 3
MaxPackages == 3

WorkoutTypes == DOMAIN TRAINING_CLASSES \cup {"XYZ", "run"}

\* values for the k-th element of a data list: those the driver's packages
\* have there, every duration up to MaxDuration, and 0 past the last
\* parameter of any class
SampleAt(k) ==
    {PACKAGES[i][2][k] : i \in {j \in 1 .. Len(PACKAGES) : Len(PACKAGES[j][2]) >= k}}
        \cup (IF k = 2 THEN 0 .. MaxDuration ELSE {})
        \cup (IF k > 5 THEN {0} ELSE {})

RECURSIVE ListsOfLen(_)
ListsOfLen(n) ==
    IF n = 0 THEN {<<>>}
    ELSE {Append(s, v) : s \in ListsOfLen(n - 1), v \in SampleAt(n)}

DataLists == UNION {ListsOfLen(n) : n \in 0 .. MaxArgs}

\* packages the driver loop may meet: its own, one with an unknown code and
\* one with a zero duration
PackagePool ==
    {PACKAGES[i] : i \in 1 .. Len(PACKAGES)}
        \cup {<<"XYZ", <<15000, 1, 75>>>>, <<"RUN", <<15000, 0, 75>>>>}

RECURSIVE PackageListsOfLen(_)
PackageListsOfLen(n) ==
    IF n = 0 THEN {<<>>}
    ELSE {Append(s, p) : s \in PackageListsOfLen(n - 1), p \in PackagePool}

PackageLists == UNION {PackageListsOfLen(n) : n \in 0 .. MaxPackages}

---------------------------------------------------------------------------
(* A client of the module: it calls read_package once and then the methods *)
(* of the object it got, in any order and any number of times.             *)

Methods ==
    {"get_distance", "get_mean_speed", "get_spent_calories",
     "show_training_info"}

NoArgs == [workout_type |-> "", data |-> <<>>, called |-> FALSE]

NotCalled == [called |-> FALSE, exc |-> "", val |-> None]

Returned(val) == [called |-> TRUE, exc |-> "", val |-> val]

Threw(e) == [called |-> TRUE, exc |-> e, val |-> None]

\* what a call that evaluated to the number v did
Outcome(v) == IF v.err # "" THEN Threw(v.err) ELSE Returned(v)

Init ==
    /\ pc = "client"
    /\ packages = <<>>
    /\ idx = 0
    /\ args = NoArgs
    /\ training = None
    /\ results = [m \in Methods |-> NotCalled]
    /\ info = None
    /\ message = None
    /\ stdout = <<>>
    /\ exc = ""
    /\ constructed = 0

CallReadPackage ==
    /\ pc = "client"
    /\ ~args.called
    /\ \E workout_type \in WorkoutTypes, data \in DataLists :
          LET r == read_package(workout_type, data)
          IN  /\ args' = [workout_type |-> workout_type, data |-> data,
                          called |-> TRUE]
              /\ training' = r.val
              /\ exc' = r.exc
              /\ constructed' = constructed + r.constructed
    /\ UNCHANGED <<pc, packages, idx, results, info, message, stdout>>

CallGetDistance ==
    /\ pc = "client"
    /\ training # None
    /\ results' = [results EXCEPT
                     !["get_distance"] = Outcome(get_distance(training))]
    /\ UNCHANGED <<pc, packages, idx, args, training, info, message, stdout,
                   exc, constructed>>

\* get_mean_speed converting self.duration to minutes in place
CallGetMeanSpeed_StoresMinutes ==
    /\ pc = "client"
    /\ training # None
    /\ results' = [results EXCEPT
                     !["get_mean_speed"] = Outcome(get_mean_speed(training))]
    /\ training' = [training EXCEPT !.duration = @ * MINUTES_IN_HOUR]
    /\ UNCHANGED <<pc, packages, idx, args, info, message, stdout, exc,
                   constructed>>

CallGetMeanSpeed ==
    /\ pc = "client"
    /\ training # None
    /\ results' = [results EXCEPT
                     !["get_mean_speed"] = Outcome(get_mean_speed(training))]
    /\ UNCHANGED <<pc, packages, idx, args, training, info, message, stdout,
                   exc, constructed>>

CallGetSpentCalories ==
    /\ pc = "client"
    /\ training # None
    /\ results' = [results EXCEPT
                     !["get_spent_calories"] =
                         Outcome(get_spent_calories(training))]
    /\ UNCHANGED <<pc, packages, idx, args, training, info, message, stdout,
                   exc, constructed>>

CallShowTrainingInfo ==
    /\ pc = "client"
    /\ training # None
    /\ \E r \in {show_training_info(training)} :
           /\ results' = [results EXCEPT
                            !["show_training_info"] =
                                IF r.err # "" THEN Threw(r.err)
                                ELSE Returned(r.val)]
           /\ info' = IF r.err # "" THEN info ELSE r.val
    /\ UNCHANGED <<pc, packages, idx, args, training, message, stdout, exc,
                   constructed>>

CallGetMessage ==
    /\ pc = "client"
    /\ info # None
    /\ message' = get_message(info)
    /\ UNCHANGED <<pc, packages, idx, args, training, results, info, stdout,
                   exc, constructed>>

Next ==
    \/ CallReadPackage
    \/ CallGetDistance
    \/ CallGetMeanSpeed
    \/ CallGetSpentCalories
    \/ CallShowTrainingInfo
    \/ CallGetMessage

Spec == Init /\ [][Next]_vars

---------------------------------------------------------------------------
(* The __main__ block: the loop over packages, and main(training).         *)

DriverInit ==
    /\ pc = "for"
    /\ packages \in PackageLists
    /\ idx = 0
    /\ args = NoArgs
    /\ training = None
    /\ results = [m \in Methods |-> NotCalled]
    /\ info = None
    /\ message = None
    /\ stdout = <<>>
    /\ exc = ""
    /\ constructed = 0

\* for workout_type, data in packages: the next pair
ForNext ==
    /\ pc = "for"
    /\ idx < Len(packages)
    /\ idx' = idx + 1
    /\ args' = [workout_type |-> packages[idx + 1][1],
                data |-> packages[idx + 1][2], called |-> FALSE]
    /\ pc' = "read_package"
    /\ UNCHANGED <<packages, training, results, info, message, stdout, exc,
                   constructed>>

\* for: the list is exhausted, the program ends
ForExit ==
    /\ pc = "for"
    /\ idx >= Len(packages)
    /\ pc' = "exit"
    /\ UNCHANGED <<packages, idx, args, training, results, info, message,
                   stdout, exc, constructed>>

\* the loop catching the error of read_package and going on to the next pair
DriverReadPackage_SkipsBadPackage ==
    /\ pc = "read_package"
    /\ LET r == read_package(args.workout_type, args.data)
       IN  /\ args' = [args EXCEPT !.called = TRUE]
           /\ constructed' = constructed + r.constructed
           /\ exc' = ""
           /\ training' = IF r.exc # "" THEN training ELSE r.val
           /\ pc' = IF r.exc # "" THEN "for" ELSE "show_training_info"
    /\ UNCHANGED <<packages, idx, results, info, message, stdout>>

\* training = read_package(workout_type, data)
DriverReadPackage ==
    /\ pc = "read_package"
    /\ LET r == read_package(args.workout_type, args.data)
       IN  /\ args' = [args EXCEPT !.called = TRUE]
           /\ constructed' = constructed + r.constructed
           /\ exc' = r.exc
           /\ training' = IF r.exc # "" THEN training ELSE r.val
           /\ pc' = IF r.exc # "" THEN "crashed" ELSE "show_training_info"
    /\ UNCHANGED <<packages, idx, results, info, message, stdout>>

\* main: info = training.show_training_info()
MainShowTrainingInfo ==
    /\ pc = "show_training_info"
    /\ \E r \in {show_training_info(training)} :
           /\ exc' = r.err
           /\ info' = r.val
           /\ pc' = IF r.err # "" THEN "crashed" ELSE "get_message"
    /\ UNCHANGED <<packages, idx, args, training, results, message, stdout,
                   constructed>>

\* main: message = info.get_message()
MainGetMessage ==
    /\ pc = "get_message"
    /\ message' = get_message(info)
    /\ pc' = "print"
    /\ UNCHANGED <<packages, idx, args, training, results, info, stdout, exc,
                   constructed>>

\* print putting each line before the lines already written
MainPrint_Prepends ==
    /\ pc = "print"
    /\ stdout' = <<message.text>> \o stdout
    /\ info' = None
    /\ message' = None
    /\ pc' = "for"
    /\ UNCHANGED <<packages, idx, args, training, results, exc, constructed>>

\* main: print(message), and the return from main drops its locals
MainPrint ==
    /\ pc = "print"
    /\ stdout' = Append(stdout, message.text)
    /\ info' = None
    /\ message' = None
    /\ pc' = "for"
    /\ UNCHANGED <<packages, idx, args, training, results, exc, constructed>>

DriverNext ==
    \/ ForNext
    \/ ForExit
    \/ DriverReadPackage
    \/ MainShowTrainingInfo
    \/ MainGetMessage
    \/ MainPrint

ProgramPoints ==
    {"for", "read_package", "show_training_info", "get_message", "print",
     "exit", "crashed"}

\* the interpreter moving on from a statement: every statement of the driver
\* leads to another program point, and "exit" and "crashed" end the program
DriverStep ==
    /\ pc \notin {"exit", "crashed"}
    /\ pc' \in ProgramPoints \ {pc}

\* one thread runs the loop without suspension: while the program has not
\* ended, its next statement is executed
SpecDriver == DriverInit /\ [][DriverNext]_vars /\ WF_pc(DriverStep)

---------------------------------------------------------------------------
(* Properties                                                              *)

Recognized == {"SWM", "RUN", "WLK"}

Called(m) == results[m].called

Value(m) == results[m].val

IsObject(cls, data) ==
    /\ pc = "client"
    /\ training # None
    /\ training.cls = cls
    /\ args.data = data

\* C1: read_package with a workout code other than SWM, RUN, WLK raises
\* ValueError for every parameter list; no object is constructed or returned.
C1_UnknownCodeRaisesValueError ==
    (pc = "client" /\ args.called /\ args.workout_type \notin Recognized)
        => (exc = "ValueError" /\ training = None /\ constructed = 0)

C1_Witness ==
    /\ pc = "client"
    /\ args.called
    /\ args.workout_type = "XYZ"
    /\ args.data = <<15000, 1, 75>>
    /\ exc = "ValueError"

\* C2: with a recognized code read_package returns an object exactly when
\* the number of parameters is the arity of the mapped class (RUN 3, WLK 4,
\* SWM 5); the object is of that class and holds the parameters in
\* positional order.  Any other number raises TypeError and returns nothing.
C2_ArityDecidesConstruction ==
    (pc = "client" /\ args.called /\ args.workout_type \in Recognized) =>
        LET code  == args.workout_type
            data  == args.data
            arity == CASE code = "RUN" -> 3 [] code = "WLK" -> 4 [] OTHER -> 5
            class == CASE code = "RUN" -> "Running"
                       [] code = "WLK" -> "SportsWalking"
                       [] OTHER        -> "Swimming"
            names == CASE code = "RUN" -> <<"action", "duration", "weight">>
                       [] code = "WLK" -> <<"action", "duration", "weight",
                                            "height">>
                       [] OTHER        -> <<"action", "duration", "weight",
                                            "length_pool", "count_pool">>
        IN  IF Len(data) = arity
            THEN /\ exc = ""
                 /\ constructed = 1
                 /\ training # None
                 /\ training.cls = class
                 /\ DOMAIN training = {"cls"} \cup {names[i] : i \in 1 .. arity}
                 /\ \A i \in 1 .. arity : training[names[i]] = data[i]
            ELSE /\ exc = "TypeError"
                 /\ training = None
                 /\ constructed = 0

C2_Witness ==
    /\ pc = "client"
    /\ args.called
    /\ args.workout_type = "SWM"
    /\ args.data = <<720, 1, 80, 25, 40>>
    /\ training # None
    /\ training.length_pool = 25
    /\ training.count_pool = 40

IsRun15000 == IsObject("Running", <<15000, 1, 75>>)

\* the last n - 1 characters of a line before its final full stop
LastField(text, n) == SubSeq(text, Len(text) - n, Len(text))

\* the float the program gets for action * step / 1000
StepsInKm(action, step) == PyTrueDiv(PyMul(Num(action), step), Num(1000))

\* C3 (as amended): for the running record action=15000, duration=1,
\* weight=75 the summary reports distance 9.750 km, mean speed 9.750 km/h
\* and calories (18*9.75+1.79)*75/1000*(1*60), which is 797.805.
C3_RunningSummary ==
    (IsRun15000 /\ info # None) =>
        /\ info.distance = Literal(9750, 3)
        /\ info.speed = Literal(9750, 3)
        /\ info.calories =
              PyMul(PyTrueDiv(PyMul(PyAdd(PyMul(Num(18), Literal(975, 2)),
                                          Literal(179, 2)),
                                    Num(75)),
                              Num(1000)),
                    PyMul(Num(1), Num(60)))
        /\ RoundTo3(info.distance) = BigOf(9750)
        /\ RoundTo3(info.speed) = BigOf(9750)
        /\ RoundTo3(info.calories) = BigOf(797805)
        /\ (message # None =>
               LastField(message.text, 7) = <<55, 57, 55, 46, 56, 48, 53, 46>>)

C3_Witness == IsRun15000 /\ info # None /\ message # None

\* C3 as claimed: the calories of that record round to 792.000.
C3_CaloriesRoundTo792 ==
    (IsRun15000 /\ info # None) => RoundTo3(info.calories) = BigOf(792000)

\* the two floats differ by less than 2^-52 of b: what two roundings of an
\* arithmetic result to MANT_DIG digits can add up to
WithinRounding(a, b) ==
    /\ a.err = ""
    /\ b.err = ""
    /\ LET e == IF a.e < b.e THEN a.e ELSE b.e
           x == ShiftLeft(a.m, a.e - e)
           y == ShiftLeft(b.m, b.e - e)
           d == IF Leq(x, y) THEN Sub(y, x) ELSE Sub(x, y)
       IN  d = <<>> \/ ~Leq(y, ShiftLeft(d, MANT_DIG - 1))

\* C4: for every swimming record with duration > 0, mean speed is
\* length_pool*count_pool/1000/duration, distance is action*1.38/1000 and
\* calories are (mean_speed+1.1)*2*weight*duration; for 720, 1, 80, 25, 40
\* these are 1.000 km/h, 0.994 km (0.9936) and 336.000.
C4_SwimmingFormulas ==
    (pc = "client" /\ training # None /\ training.cls = "Swimming"
        /\ training.duration > 0) =>
        LET a == training.action
            d == training.duration
            w == training.weight
            l == training.length_pool
            c == training.count_pool
            mean_speed == PyTrueDiv(PyTrueDiv(PyMul(Num(l), Num(c)), Num(1000)),
                                    Num(d))
        IN  /\ Called("get_mean_speed") => Value("get_mean_speed") = mean_speed
            /\ Called("get_distance") =>
                  Value("get_distance") = StepsInKm(a, Literal(138, 2))
            /\ Called("get_spent_calories") =>
                  Value("get_spent_calories") =
                      PyMul(PyMul(PyMul(PyAdd(mean_speed, Literal(11, 1)),
                                        Num(2)),
                                  Num(w)),
                            Num(d))
            /\ (args.data = <<720, 1, 80, 25, 40>>) =>
                  /\ Called("get_mean_speed") =>
                        /\ Value("get_mean_speed") = Num(1)
                        /\ RoundTo3(Value("get_mean_speed")) = BigOf(1000)
                  /\ Called("get_distance") =>
                        /\ WithinRounding(Value("get_distance"), Literal(9936, 4))
                        /\ RoundTo3(Value("get_distance")) = BigOf(994)
                  /\ Called("get_spent_calories") =>
                        /\ Value("get_spent_calories") = Num(336)
                        /\ RoundTo3(Value("get_spent_calories")) = BigOf(336000)

C4_Witness ==
    /\ IsObject("Swimming", <<720, 1, 80, 25, 40>>)
    /\ Called("get_mean_speed")
    /\ Called("get_distance")
    /\ Called("get_spent_calories")

IsLandRecord ==
    /\ pc = "client"
    /\ training # None
    /\ training.cls \in {"Running", "SportsWalking"}
    /\ training.duration > 0

\* distance = action*0.65/1000 and mean speed = distance/duration; for
\* walking 9000, 1, 75, 180 both are 5.850
LandFormulas ==
    LET a == training.action
        d == training.duration
    IN  /\ Called("get_distance") =>
              Value("get_distance") = StepsInKm(a, Literal(65, 2))
        /\ Called("get_mean_speed") =>
              Value("get_mean_speed") =
                  PyTrueDiv(StepsInKm(a, Literal(65, 2)), Num(d))
        /\ (training.cls = "SportsWalking"
              /\ args.data = <<9000, 1, 75, 180>>) =>
              /\ Called("get_distance") =>
                    RoundTo3(Value("get_distance")) = BigOf(5850)
              /\ Called("get_mean_speed") =>
                    RoundTo3(Value("get_mean_speed")) = BigOf(5850)

\* C5 (as amended): for every running and walking record with duration > 0,
\* distance is action*0.65/1000 km and mean speed is distance/duration, so
\* distance = mean_speed*duration holds up to the rounding of the two float
\* operations (a relative difference below 2^-52), and exactly when the
\* duration is 1; for walking 9000, 1, 75, 180 both are 5.850.
C5_LandDistanceAndSpeed ==
    IsLandRecord =>
        /\ LandFormulas
        /\ (Called("get_distance") /\ Called("get_mean_speed")) =>
              LET product == PyMul(Value("get_mean_speed"),
                                   Num(training.duration))
              IN  /\ WithinRounding(product, Value("get_distance"))
                  /\ training.duration = 1 => product = Value("get_distance")

C5_Witness ==
    /\ IsObject("SportsWalking", <<9000, 1, 75, 180>>)
    /\ Called("get_distance")
    /\ Called("get_mean_speed")

\* C5 as claimed: distance = mean_speed*duration always holds, as an
\* equality of the two values the program computes.
C5_ProductIsDistance ==
    IsLandRecord =>
        /\ LandFormulas
        /\ (Called("get_distance") /\ Called("get_mean_speed")) =>
              PyMul(Value("get_mean_speed"), Num(training.duration))
                  = Value("get_distance")

\* C6: on an object of any of the three classes, a call of get_distance,
\* get_mean_speed, get_spent_calories or show_training_info leaves every
\* field of the object unchanged, and a method that was called before
\* returns (or raises) what it did then.
C6_MethodsArePure ==
    [][(pc = "client" /\ training # None) =>
          /\ training' = training
          /\ \A m \in Methods : Called(m) => results'[m] = results[m]]_vars

C6_Witness ==
    /\ pc = "client"
    /\ training # None
    /\ training.cls = "SportsWalking"
    /\ training.duration > 0
    /\ \A m \in Methods : Called(m)

\* the class name a printed line names: the text between the first literal
\* of the template (16 characters) and the next semicolon
LineNames(line, name) ==
    /\ Len(line) > 16 + Len(StrText(name))
    /\ SubSeq(line, 17, 16 + Len(StrText(name))) = StrText(name)
    /\ line[17 + Len(StrText(name))] = 59

DriverDone ==
    /\ pc = "exit"
    /\ exc = ""
    /\ Len(stdout) = 3
    /\ LineNames(stdout[1], "Swimming")
    /\ LineNames(stdout[2], "Running")
    /\ LineNames(stdout[3], "SportsWalking")

\* C7: the driver over its fixed package list eventually ends having
\* written exactly three lines, one per record, in input order (SWM, RUN,
\* WLK); a record is dispatched only when the lines of all records before it
\* are written and nothing of an earlier record is still in progress.
C7_DriverPrintsThreeLinesInOrder ==
    /\ [](pc = "read_package" =>
             (Len(stdout) = idx - 1 /\ info = None /\ message = None))
    /\ [](packages = PACKAGES => Len(stdout) <= 3)
    /\ [](packages = PACKAGES /\ pc = "exit" => DriverDone)
    /\ (packages = PACKAGES ~> DriverDone)

C7_Witness == packages = PACKAGES /\ DriverDone

\* C8: when the driver loop meets an unrecognized code at position i, the
\* ValueError of read_package ends the driver: the lines of the packages
\* before i are printed, and for position i and later no line is printed
\* and no object is constructed.
C8_UnknownCodeEndsDriver ==
    /\ (pc # "client" /\ args.called /\ args.workout_type \notin Recognized) =>
          /\ pc = "crashed"
          /\ exc = "ValueError"
          /\ packages[idx][1] = args.workout_type
          /\ Len(stdout) = idx - 1
          /\ constructed = idx - 1
          /\ ~ENABLED DriverNext
    /\ (pc # "client" /\ exc = "ValueError") =>
          (args.called /\ args.workout_type \notin Recognized)

C8_Witness ==
    /\ pc = "crashed"
    /\ exc = "ValueError"
    /\ idx = 2
    /\ Len(packages) = 3
    /\ packages[1][1] = "SWM"
    /\ Len(stdout) = 1
    /\ constructed = 1

ZeroDurationObject ==
    /\ pc = "client"
    /\ args.called
    /\ args.workout_type \in Recognized
    /\ Len(args.data) =
          (CASE args.workout_type = "RUN" -> 3
             [] args.workout_type = "WLK" -> 4
             [] OTHER -> 5)
    /\ args.data[2] = 0

\* C9 (as amended): a recognized code with duration 0 is not validated:
\* read_package constructs and returns the object without error, and
\* computing its mean speed raises ZeroDivisionError; no speed is produced.
C9_ZeroDurationRaises ==
    ZeroDurationObject =>
        /\ exc = ""
        /\ training # None
        /\ training.duration = 0
        /\ Called("get_mean_speed") =>
              (results["get_mean_speed"].exc = "ZeroDivisionError"
                  /\ Value("get_mean_speed") = None)

C9_Witness ==
    /\ ZeroDurationObject
    /\ training # None
    /\ training.cls = "Swimming"
    /\ Called("get_mean_speed")

\* C9 as claimed: computing the mean speed of such an object produces a
\* value instead of raising an error.
C9_ZeroDurationGivesValue ==
    ZeroDurationObject =>
        /\ exc = ""
        /\ training # None
        /\ Called("get_mean_speed") => results["get_mean_speed"].exc = ""

IsDigit(c) == c >= 48 /\ c <= 57

\* position of the first character at or after i that is not a digit
RECURSIVE DigitsEnd(_, _)
DigitsEnd(text, i) ==
    IF i <= Len(text) /\ IsDigit(text[i]) THEN DigitsEnd(text, i + 1) ELSE i

RECURSIVE NatOf(_, _, _)
NatOf(text, i, j) ==
    IF j < i THEN 0 ELSE 10 * NatOf(text, i, j - 1) + (text[j] - 48)

\* |1000*v - m| <= 1/2: m thousandths is v rounded to three decimals
RoundsTo(v, m) ==
    LET t == IF v.e < 0 THEN 0 - v.e ELSE 0
        x == ShiftLeft(MulSmall(v.m, 1000), v.e + t)
        y == ShiftLeft(BigOf(m), t)
        d == IF Leq(x, y) THEN Sub(y, x) ELSE Sub(x, y)
    IN  Leq(ShiftLeft(d, 1), ShiftLeft(<<1>>, t))

\* text from position i on is lit; the position after it, or 0
AfterLit(text, i, lit) ==
    IF i > 0 /\ i + Len(lit) - 1 <= Len(text)
          /\ SubSeq(text, i, i + Len(lit) - 1) = lit
    THEN i + Len(lit) ELSE 0

\* text from position i on is v with one or more integer digits, a point
\* and exactly three decimals; the position after it, or 0
AfterFixed3(text, i, v) ==
    IF i = 0 THEN 0
    ELSE LET p == DigitsEnd(text, i)
         IN  IF /\ p > i
                /\ p + 3 <= Len(text)
                /\ text[p] = 46
                /\ DigitsEnd(text, p + 1) = p + 4
                /\ RoundsTo(v, 1000 * NatOf(text, i, p - 1)
                                   + NatOf(text, p + 1, p + 3))
             THEN p + 4 ELSE 0

\* text is one line that follows the template whose literal parts are lits,
\* with the fields of report in the order type, duration, distance, speed,
\* calories
FollowsTemplate(text, lits, report) ==
    LET p1  == AfterLit(text, 1, lits[1])
        p2  == AfterLit(text, p1, StrText(report.training_type))
        p3  == AfterLit(text, p2, lits[2])
        p4  == AfterFixed3(text, p3, report.duration)
        p5  == AfterLit(text, p4, lits[3])
        p6  == AfterFixed3(text, p5, report.distance)
        p7  == AfterLit(text, p6, lits[4])
        p8  == AfterFixed3(text, p7, report.speed)
        p9  == AfterLit(text, p8, lits[5])
        p10 == AfterFixed3(text, p9, report.calories)
        p11 == AfterLit(text, p10, lits[6])
    IN  /\ p11 = Len(text) + 1
        /\ \A i \in 1 .. Len(text) : text[i] \notin {10, 13}

\* 'Тип тренировки: ', '; Длительность: ', ' ч.; Дистанция: ',
\* ' км; Ср. скорость: ', ' км/ч; Потрачено ккал: ', '.'
RussianLiterals ==
    << <<1058, 1080, 1087, 32, 1090, 1088, 1077, 1085, 1080, 1088, 1086, 1074,
         1082, 1080, 58, 32>>,
       <<59, 32, 1044, 1083, 1080, 1090, 1077, 1083, 1100, 1085, 1086, 1089,
         1090, 1100, 58, 32>>,
       <<32, 1095, 46, 59, 32, 1044, 1080, 1089, 1090, 1072, 1085, 1094, 1080,
         1103, 58, 32>>,
       <<32, 1082, 1084, 59, 32, 1057, 1088, 46, 32, 1089, 1082, 1086, 1088,
         1086, 1089, 1090, 1100, 58, 32>>,
       <<32, 1082, 1084, 47, 1095, 59, 32, 1055, 1086, 1090, 1088, 1072, 1095,
         1077, 1085, 1086, 32, 1082, 1082, 1072, 1083, 58, 32>>,
       <<46>> >>

\* 'Training type: ', '; Duration: ', ' h.; Distance: ', ' km; Avg speed: ',
\* ' km/h; Calories burned: ', '.'
EnglishLiterals ==
    << <<84, 114, 97, 105, 110, 105, 110, 103, 32, 116, 121, 112, 101, 58, 32>>,
       <<59, 32, 68, 117, 114, 97, 116, 105, 111, 110, 58, 32>>,
       <<32, 104, 46, 59, 32, 68, 105, 115, 116, 97, 110, 99, 101, 58, 32>>,
       <<32, 107, 109, 59, 32, 65, 118, 103, 32, 115, 112, 101, 101, 100, 58,
         32>>,
       <<32, 107, 109, 47, 104, 59, 32, 67, 97, 108, 111, 114, 105, 101, 115,
         32, 98, 117, 114, 110, 101, 100, 58, 32>>,
       <<46>> >>

\* C10 (as amended): get_message renders a summary report as a single line
\* following the fixed template 'Тип тренировки: {training_type};
\* Длительность: {duration:.3f} ч.; Дистанция: {distance:.3f} км;
\* Ср. скорость: {speed:.3f} км/ч; Потрачено ккал: {calories:.3f}.', the
\* five fields in the order type, duration, distance, speed, calories and
\* each numeric field with exactly three decimal digits.
C10_MessageFollowsTemplate ==
    (pc = "client" /\ message # None) =>
        FollowsTemplate(message.text, RussianLiterals, info)

C10_Witness ==
    /\ pc = "client"
    /\ message # None
    /\ training.cls = "SportsWalking"
    /\ args.data = <<9000, 2, 75, 180>>

\* C10 as claimed: the literal text of the template is 'Training type: ',
\* '; Duration: ', ' h.; Distance: ', ' km; Avg speed: ',
\* ' km/h; Calories burned: ', '.'.
C10_MessageFollowsEnglishTemplate ==
    (pc = "client" /\ message # None) =>
        FollowsTemplate(message.text, EnglishLiterals, info)

=============================================================================
